---------------------------- MODULE Spec2Model ----------------------------
(***************************************************************************)
(* A model of the YART room actor, RoomDO: one Durable Object per room     *)
(* holding the authoritative room state, the storage copy of it and the    *)
(* set of accepted WebSockets, together with the Worker routes that create *)
(* a room and report its existence.                                        *)
(*                                                                         *)
(* Every handler is one action.  A handler runs to completion before the   *)
(* next event is delivered (the object processes one event at a time); its *)
(* single storage.put either succeeds or throws, and a throw is caught by  *)
(* webSocketMessage, which skips whatever followed the put.                *)
(*                                                                         *)
(* Strings whose content matters only through trim() and length are kept   *)
(* run-length encoded: [lead, body, trail] is lead spaces, body non-space  *)
(* characters, trail spaces.  Generated ids are fresh numbers; 0 stands    *)
(* for an absent, empty or undefined id (all falsy in the code).           *)
(***************************************************************************)
EXTENDS Integers, Sequences, FiniteSets, TLC

(* ------------------------------ bounds -------------------------------- *)
\* connections ever accepted
MaxUsers == 2
\* columns ever created
MaxColumns == 2
\* cards ever published
MaxCards == 3
\* groups ever created
MaxGroups == 2
\* vote messages ever recorded
MaxVotes == 2
\* action items ever added
MaxActions == 1
\* storage.put calls that throw
MaxPutFailures == 1
\* sockets whose send throws while they are still accepted
MaxBroken == 1
\* POST /init requests that reach an object which holds a room
MaxInits == 1
\* the hook: messages passed to send, sockets that close, runs of the
\* effect, ticks of the ping interval, and the cap of reconnectAttempts
MaxSends == 3
FewSends == 1
\* the cards of the specifications that follow the clients' copies
PairCards == 2
MaxCloses == 3
MaxMounts == 2
MaxPings == 2
MaxAttempts == 2
\* connections of the specifications that follow a participant who returns
ManyUsers == 3
\* the narrower bounds of the specifications that run every handler
FewUsers == 1
FewColumns == 1
FewCards == 1
FewGroups == 1
FewVotes == 1

(* -------------------------- program constants ------------------------- *)
\* trimmedContent.length > 1000
MaxContentLength == 1000

(* ------------------------------ inputs -------------------------------- *)
\* generateId(32) of the Worker, and what a client may present instead
OwnerKeys == {"K1"}
\* the owner key a later POST /api/rooms generates
NewOwnerKeys == {"K2"}
\* the names of a later POST /api/rooms
LaterRoomNames == {"Sprint Retro", "Team Sync"}
PresentedKeys == {"K1", "K0"}
RoomNames == {"Sprint Retro"}
AnonNames == {"Calm Fox"}
\* the six modes of RoomState.mode and a value outside them
Modes == {"edit", "publish", "group", "vote", "focus", "overview"}
ModeInputs == {"group", "", "bogus"}
\* an id no generateId call has returned
UnknownId == MaxColumns + MaxCards + MaxGroups + 1
\* the longest cardIds / columnIds array a client sends
MaxIdList == 2

Str(l, b, t) == [lead |-> l, body |-> b, trail |-> t]
ColumnNameInputs == {Str(1, 0, 0), Str(1, 1, 1)}
ContentInputs == {Str(0, 0, 2), Str(1, 1, 0), Str(0, MaxContentLength + 1, 1)}
ActionInputs == {Str(1, 0, 0), Str(0, 1, 1)}

VARIABLES
    room,        \* this.room: the in-memory RoomState, or NoRoom
    storage,     \* state.storage "room": the persisted RoomState, or NoRoom
    sockets,     \* state.getWebSockets() with their attachments: ws -> User
    sent,        \* what the last event sent: a sequence of [to, msg]
    response,    \* the HTTP response of the last event, or NoResponse
    seq,         \* how many ids generateId has handed out, per kind
    putFailures, \* how many storage.put calls have thrown
    storageFault,\* whether the next storage.put throws
    last,        \* the event handled last: a route, or the type of a message
    quota,       \* how many of each kind the clients of this run may make
    broken,      \* the accepted sockets whose send throws (closed, not yet reported)
    delivered,   \* what each accepted socket has been sent of the mutations, in order
    applied,     \* the mutations of this.room, in the order they were made
    replica,     \* the RoomProvider state of the client of each accepted socket
    hook,        \* the refs of one useWebSocket hook, its sockets and what it sent
    voteSets,    \* participant id -> the targets that participant has voted
    pending      \* the broadcast of the handler whose storage.put is in flight

vars == <<room, storage, sockets, sent, response, seq, putFailures, storageFault, last,
          quota, broken, delivered, applied, replica, hook, voteSets, pending>>

\* `last` is kept only in the specifications that observe it
Logged(event) == IF quota.log THEN event ELSE ""

NoRoom == [null |-> TRUE]
NoResponse == [status |-> 0]

(* ------------------------------ strings ------------------------------- *)
\* String.prototype.trim
Trim(s) == IF s.body = 0 THEN Str(0, 0, 0) ELSE Str(0, s.body, 0)
\* String.prototype.length
StrLen(s) == s.lead + s.body + s.trail
\* !s?.trim() : an empty string is falsy
Blank(s) == StrLen(Trim(s)) = 0

(* ----------------------------- sequences ------------------------------ *)
Range(s) == {s[i] : i \in DOMAIN s}

\* Array.prototype.findIndex over the outcomes of the test, one per element;
\* 1-based, 0 when nothing matches
FindIndex(hits) ==
    IF \E i \in DOMAIN hits : hits[i]
    THEN CHOOSE i \in DOMAIN hits : hits[i] /\ \A j \in 1..(i - 1) : ~hits[j]
    ELSE 0

\* the index of the element with the id
IndexOfId(s, id) == FindIndex([i \in DOMAIN s |-> s[i].id = id])

\* Array.prototype.splice(index, 1), 1-based
Splice(s, index) ==
    [j \in 1..(Len(s) - 1) |-> IF j < index THEN s[j] ELSE s[j + 1]]

RECURSIVE SetToSeq(_)
SetToSeq(S) ==
    IF S = {} THEN <<>>
    ELSE LET m == CHOOSE x \in S : \A y \in S : x <= y
         IN <<m>> \o SetToSeq(S \ {m})

(* ------------------------------ sending ------------------------------- *)
\* ws.send(JSON.stringify(msg)): what is delivered; on a broken socket the
\* send throws and nothing is
Send(ws, msg) == IF ws \in broken THEN <<>> ELSE <<[to |-> ws, msg |-> msg]>>

\* the events that describe a mutation of the room
DeltaTypes == {"column_added", "column_updated", "column_deleted",
               "columns_reordered", "mode_changed", "card_published",
               "card_deleted", "cards_grouped", "card_ungrouped",
               "vote_recorded", "vote_progress", "focus_changed", "action_added"}

\* a socket that hands a later message to the client before the earlier ones
DeliverFirst(log, msgs) == msgs \o log

\* the messages of one socket reach its client in the order of the ws.send
\* calls
Deliver(log, msgs) == log \o msgs

\* the events of DeltaTypes among `events`, added to what each socket of
\* `socks` has been sent; kept only in the specifications that observe it
Delivered(events, socks) ==
    IF ~quota.history THEN delivered
    ELSE [ws \in DOMAIN socks |->
             LET mine == SelectSeq(events, LAMBDA e :
                                       e.to = ws /\ e.msg.type \in DeltaTypes)
             IN Deliver(IF ws \in DOMAIN delivered THEN delivered[ws] ELSE <<>>,
                        [i \in DOMAIN mine |-> mine[i].msg])]

\* what a handler did to this.room, read off the room before and after:
\* columns.push, cards.push, cards.splice
Mutation(r, r2) ==
    IF Len(r2.columns) > Len(r.columns)
    THEN [type |-> "column_added", column |-> r2.columns[Len(r2.columns)]]
    ELSE IF Len(r2.cards) > Len(r.cards)
    THEN [type |-> "card_published", card |-> r2.cards[Len(r2.cards)]]
    ELSE IF Len(r2.cards) < Len(r.cards)
    THEN [type |-> "card_deleted",
          cardId |-> CHOOSE id \in {c.id : c \in Range(r.cards)} :
                         IndexOfId(r2.cards, id) = 0]
    ELSE [type |-> "other"]

\* the mutations so far, with the one of this event
Applied(r, r2) ==
    IF quota.history /\ r # r2 THEN Append(applied, Mutation(r, r2)) ELSE applied

(* ------------------------------ the client --------------------------- *)
\* the groups that the vote_toggled branch of handleMessage reads: the
\* callback is made once (useCallback with the dependency setUser, a state
\* setter), so it keeps the groups of the first render, the initial []
ClosureGroups == <<>>

\* RoomProvider.handleMessage: the columns, cards, groups and own votes of
\* the client after one message of the server
ClientHandle(c, msg) ==
    LET has(items, id) == IndexOfId(items, id) # 0
        withGroupId(cards, ids, groupId) ==
            [i \in DOMAIN cards |->
                IF cards[i].id \in ids THEN [cards[i] EXCEPT !.groupId = groupId]
                ELSE cards[i]]
    IN CASE msg.type = "state" ->
              [columns |-> msg.room.columns, cards |-> msg.room.cards,
               groups |-> msg.room.groups, myVotes |-> {}]
         [] msg.type = "card_published" ->
              IF has(c.cards, msg.card.id) THEN c
              ELSE [c EXCEPT !.cards = Append(@, msg.card)]
         [] msg.type = "card_deleted" ->
              [c EXCEPT !.cards = SelectSeq(@, LAMBDA x : x.id # msg.cardId)]
         [] msg.type = "cards_grouped" ->
              [c EXCEPT
                  !.groups = IF has(@, msg.group.id)
                             THEN [i \in DOMAIN @ |->
                                      IF @[i].id = msg.group.id THEN msg.group ELSE @[i]]
                             ELSE Append(@, msg.group),
                  !.cards = withGroupId(@, Range(msg.group.cardIds), msg.group.id)]
         [] msg.type = "card_ungrouped" ->
              [c EXCEPT
                  !.cards = withGroupId(@, {msg.cardId}, 0),
                  !.groups = SelectSeq(
                      [i \in DOMAIN @ |->
                          [@[i] EXCEPT !.cardIds =
                              SelectSeq(@, LAMBDA id : id # msg.cardId)]],
                      LAMBDA g : Len(g.cardIds) > 1)]
         [] msg.type = "vote_toggled" ->
              LET gi == IndexOfId(ClosureGroups, msg.targetId)
                  voted == IF msg.targetType = "card" THEN {msg.targetId}
                           ELSE IF gi = 0 THEN {}
                           ELSE Range(ClosureGroups[gi].cardIds)
              IN [c EXCEPT
                     !.cards = [i \in DOMAIN @ |->
                                   IF @[i].id \in voted
                                   THEN [@[i] EXCEPT !.votes = msg.votes] ELSE @[i]],
                     !.myVotes = IF msg.action = "add" THEN @ \cup {msg.targetId}
                                 ELSE @ \ {msg.targetId}]
         [] msg.type = "column_added" ->
              IF has(c.columns, msg.column.id) THEN c
              ELSE [c EXCEPT !.columns = Append(@, msg.column)]
         [] msg.type = "column_updated" ->
              [c EXCEPT !.columns = [i \in DOMAIN @ |->
                           IF @[i].id = msg.column.id THEN msg.column ELSE @[i]]]
         [] msg.type = "column_deleted" ->
              [c EXCEPT
                  !.columns = SelectSeq(@, LAMBDA x : x.id # msg.columnId),
                  !.cards = SelectSeq(@, LAMBDA x : x.columnId # msg.columnId)]
         [] msg.type = "columns_reordered" ->
              LET mapped == [i \in DOMAIN msg.columnIds |->
                                IF has(c.columns, msg.columnIds[i])
                                THEN [c.columns[IndexOfId(c.columns, msg.columnIds[i])]
                                         EXCEPT !.order = i - 1]
                                ELSE [id |-> 0]]
              IN [c EXCEPT !.columns = SelectSeq(mapped, LAMBDA x : x.id # 0)]
         [] msg.type = "action_added" ->
              [c EXCEPT !.cards = [i \in DOMAIN @ |->
                           IF @[i].id = msg.cardId
                           THEN [@[i] EXCEPT !.actionItems = Append(@, msg.action)]
                           ELSE @[i]]]
         [] OTHER -> c

\* ws.onmessage for every message of `msgs`, in order
RECURSIVE HandleAll(_, _)
HandleAll(c, msgs) ==
    IF msgs = <<>> THEN c ELSE HandleAll(ClientHandle(c, Head(msgs)), Tail(msgs))

\* the client before its state message
NoClient == [columns |-> <<>>, cards |-> <<>>, groups |-> <<>>, myVotes |-> {}]

\* the clients of the sockets `socks` after the messages `events`; kept
\* only in the specifications that observe them
Replicas(events, socks) ==
    IF ~quota.replica THEN replica
    ELSE [ws \in DOMAIN socks |->
             LET mine == SelectSeq(events, LAMBDA e : e.to = ws)
             IN HandleAll(IF ws \in DOMAIN replica THEN replica[ws] ELSE NoClient,
                          [i \in DOMAIN mine |-> mine[i].msg])]

\* an object that delivers events while a storage.put is awaited
InputGateNone == TRUE

\* the input gate of the object: no other event is delivered while a
\* handler awaits its storage.put
InputGate == pending = <<>>

(* ------------------------ the useWebSocket hook ----------------------- *)
\* the hook before its effect has run.  readyState holds the sockets the
\* hook has made, handlers those whose onopen and onclose are still set,
\* wire what ws.send was given, submitted every message passed to send
HookInit ==
    [wsRef |-> 0, readyState |-> <<>>, handlers |-> {}, queue |-> <<>>,
     isCleaningUp |-> FALSE, shouldReconnect |-> TRUE, reconnectAttempts |-> 0,
     reconnectTimeout |-> FALSE, pingInterval |-> 0, wire |-> <<>>,
     submitted |-> <<>>, mounted |-> FALSE, mounts |-> 0]

ServerVars == <<room, storage, sockets, sent, response, seq, putFailures, storageFault,
                last, quota, broken, delivered, applied, replica, voteSets, pending>>

\* whether ws is OPEN or CONNECTING
Live(h, ws) == ws # 0 /\ h.readyState[ws] \in {"OPEN", "CONNECTING"}

\* connect(targetRoomId)
HookConnect(h) ==
    IF h.isCleaningUp \/ Live(h, h.wsRef)
    THEN h
    ELSE LET ws == Len(h.readyState) + 1
         IN [h EXCEPT !.readyState = Append(@, "CONNECTING"),
                      !.handlers = @ \cup {ws},
                      !.wsRef = ws]

\* the effect of the hook: the component mounts, or roomId changes
Effect ==
    /\ ~hook.mounted
    /\ hook.mounts < quota.mount
    /\ hook' = HookConnect([hook EXCEPT !.isCleaningUp = FALSE,
                                        !.shouldReconnect = TRUE,
                                        !.reconnectAttempts = 0,
                                        !.mounted = TRUE,
                                        !.mounts = @ + 1])
    /\ UNCHANGED ServerVars

\* a flush that hands over the first queued message only
FlushedOne(queue, readyState) ==
    IF readyState = "OPEN" /\ queue # <<>> THEN <<Head(queue)>> ELSE <<>>

\* the while loop of ws.onopen: every queued message is shifted, and sent
\* when the socket is OPEN
Flushed(queue, readyState) == IF readyState = "OPEN" THEN queue ELSE <<>>

\* ws.onopen
OnOpen ==
    /\ \E ws \in DOMAIN hook.readyState :
        /\ hook.readyState[ws] = "CONNECTING"
        /\ hook' =
             IF ws \notin hook.handlers
             THEN [hook EXCEPT !.readyState[ws] = "OPEN"]
             ELSE IF hook.isCleaningUp
             THEN [hook EXCEPT !.readyState[ws] = "CLOSING"]
             ELSE LET out == Flushed(hook.queue, "OPEN")
                  IN [hook EXCEPT
                         !.readyState[ws] = "OPEN",
                         !.reconnectAttempts = 0,
                         !.queue = <<>>,
                         !.wire = @ \o [i \in DOMAIN out |-> [ws |-> ws, msg |-> out[i]]]
                                    \o <<[ws |-> ws, msg |-> [type |-> "ping"]]>>,
                         !.pingInterval = ws]
    /\ UNCHANGED ServerVars

\* a hook that gives up after a close
ArmsTimerNever(h) == FALSE

\* shouldReconnect.current && targetRoomId
ArmsTimer(h) == h.shouldReconnect

\* ws.onclose: the server or the network ends the socket, or the close the
\* hook asked for completes
OnClose ==
    /\ Cardinality({w \in DOMAIN hook.readyState : hook.readyState[w] = "CLOSED"})
           < quota.close
    /\ \E ws \in DOMAIN hook.readyState :
        /\ hook.readyState[ws] # "CLOSED"
        /\ LET closed == [hook EXCEPT !.readyState[ws] = "CLOSED"]
               cleared == [closed EXCEPT
                              !.wsRef = IF @ = ws THEN 0 ELSE @,
                              !.pingInterval = 0]
           IN hook' =
                IF ws \notin hook.handlers THEN closed
                ELSE IF hook.isCleaningUp THEN cleared
                ELSE IF ArmsTimer(hook)
                THEN [cleared EXCEPT
                         !.reconnectAttempts = IF @ < MaxAttempts THEN @ + 1 ELSE @,
                         !.reconnectTimeout = TRUE]
                ELSE cleared
    /\ UNCHANGED ServerVars

\* the callback of the reconnect timeout
ReconnectTimer ==
    /\ hook.reconnectTimeout
    /\ hook' = HookConnect([hook EXCEPT !.reconnectTimeout = FALSE])
    /\ UNCHANGED ServerVars

\* the callback of the ping interval
PingInterval ==
    /\ hook.pingInterval # 0
    /\ hook.readyState[hook.pingInterval] = "OPEN"
    /\ Cardinality({i \in DOMAIN hook.wire : hook.wire[i].msg.type = "ping"}) < MaxPings
    /\ hook' = [hook EXCEPT !.wire = Append(@, [ws |-> hook.pingInterval,
                                                msg |-> [type |-> "ping"]])]
    /\ UNCHANGED ServerVars

\* send(message); the messages are numbered in the order of the calls
HookSend ==
    /\ Len(hook.submitted) < quota.send
    /\ LET open == hook.wsRef # 0 /\ hook.readyState[hook.wsRef] = "OPEN"
           msg == [type |-> "publish_card", n |-> Len(hook.submitted) + 1]
       IN hook' = [hook EXCEPT
                      !.submitted = Append(@, [msg |-> msg, queued |-> ~open]),
                      !.wire = IF open THEN Append(@, [ws |-> hook.wsRef, msg |-> msg])
                               ELSE @,
                      !.queue = IF open THEN @ ELSE Append(@, msg)]
    /\ UNCHANGED ServerVars

\* disconnect(), the cleanup of the effect
HookDisconnect ==
    /\ hook.mounted
    /\ hook' = [hook EXCEPT
                   !.isCleaningUp = TRUE,
                   !.shouldReconnect = FALSE,
                   !.reconnectTimeout = FALSE,
                   !.pingInterval = 0,
                   !.handlers = @ \ {hook.wsRef},
                   !.readyState = IF Live(hook, hook.wsRef)
                                  THEN [@ EXCEPT ![hook.wsRef] = "CLOSING"] ELSE @,
                   !.wsRef = 0,
                   !.mounted = FALSE]
    /\ UNCHANGED ServerVars

\* a broadcast that does not leave out `exclude`
BroadcastAll(socks, msg, exclude) ==
    LET to == SetToSeq(DOMAIN socks \ broken)
    IN [i \in DOMAIN to |-> [to |-> to[i], msg |-> msg]]

\* a broadcast that returns after its first send
BroadcastOne(socks, msg, exclude) ==
    LET to == SetToSeq(DOMAIN socks \ ({exclude} \cup broken))
    IN [i \in DOMAIN to \cap {1} |-> [to |-> to[i], msg |-> msg]]

\* a broadcast without the try / catch: the first send that throws ends it
BroadcastAbort(socks, msg, exclude) ==
    LET all == DOMAIN socks \ {exclude}
        to == SetToSeq({w \in all : \A b \in all \cap broken : w < b})
    IN [i \in DOMAIN to |-> [to |-> to[i], msg |-> msg]]

\* RoomDO.broadcast: every accepted socket but `exclude` (0: none); a send
\* that throws is caught and the loop goes on
Broadcast(socks, msg, exclude) ==
    LET to == SetToSeq(DOMAIN socks \ ({exclude} \cup broken))
    IN [i \in DOMAIN to |-> [to |-> to[i], msg |-> msg]]

\* the users as they were before the new socket was accepted
GetAllUsersBefore(socks) ==
    LET ws == SetToSeq(DOMAIN sockets) IN [i \in DOMAIN ws |-> sockets[ws[i]]]

\* RoomDO.getAllUsers
GetAllUsers(socks) ==
    LET ws == SetToSeq(DOMAIN socks) IN [i \in DOMAIN ws |-> socks[ws[i]]]

ErrorMsg(code, message) == [type |-> "error", code |-> code, message |-> message]

(* --------------------------- persistence ------------------------------ *)
\* a put of part of a mutation: the cards of the room without its groups
PutValuePartial(r) == IF r = NoRoom THEN r ELSE [r EXCEPT !.groups = <<>>]

\* the value handed to storage.put("room", this.room)
PutValue(r) == r

\* whether the storage.put of the event being handled resolves
PutOk == ~storageFault

\* storage starts to reject: the next put throws (a value over the size
\* limit of a stored value, a storage error)
StorageFault ==
    /\ ~storageFault
    /\ putFailures < quota.fault
    /\ storageFault' = TRUE
    /\ UNCHANGED <<room, storage, sockets, sent, response, seq, putFailures, last, quota,
                    broken, delivered, applied, replica, hook, voteSets, pending>>

\* broadcasts that do not wait for the put
SentBeforePut(events, ok) == events

\* what is sent once the put has resolved: a put that throws unwinds to the
\* catch of webSocketMessage, past every broadcast that follows it
SentAfterPut(events, ok) == IF ok THEN events ELSE <<>>

\* the mutated this.room, await this.state.storage.put("room", this.room),
\* then the broadcasts.  A put that throws leaves the mutation in memory.
PutAndBroadcast(r, events) ==
    /\ room' = r
    /\ storage' = IF PutOk THEN PutValue(r) ELSE storage
    /\ sent' = SentAfterPut(events, PutOk)
    /\ putFailures' = IF PutOk THEN putFailures ELSE putFailures + 1
    /\ storageFault' = FALSE
    /\ response' = NoResponse

\* a handler that returns before touching anything
NoOp ==
    /\ sent' = <<>>
    /\ response' = NoResponse
    /\ UNCHANGED <<room, storage, putFailures, storageFault, seq, sockets>>

\* a handler that only answers the requester
Reply(ws, msg) ==
    /\ sent' = Send(ws, msg)
    /\ response' = NoResponse
    /\ UNCHANGED <<room, storage, putFailures, storageFault, seq, sockets>>

(* ------------------------------ Worker -------------------------------- *)
\* RoomDO.fetch, POST /init
InitRoom(name, ownerKey) ==
    [name |-> name, ownerKey |-> ownerKey, mode |-> "edit", columns |-> <<>>,
     cards |-> <<>>, groups |-> <<>>, focusedCardId |-> 0, createdAt |-> "t0"]

\* the body of the response to POST /api/rooms
CreateResponse(key) == [status |-> 200, roomId |-> "r1", ownerKey |-> key]

\* handleRoomRoutes, POST /api/rooms: a fresh room id names an object that
\* holds no room yet and has put nothing; the owner key is returned in this
\* response only.  When the put throws the response is a 500 without the
\* room id, so that no client can address the object afterwards.
CreateRoom ==
    /\ room = NoRoom /\ storage = NoRoom /\ putFailures = 0
    /\ \E name \in RoomNames, key \in OwnerKeys :
        /\ room' = InitRoom(name, key)
        /\ storage' = IF PutOk THEN PutValue(InitRoom(name, key)) ELSE storage
        /\ response' = IF PutOk THEN CreateResponse(key) ELSE [status |-> 500]
    /\ putFailures' = IF PutOk THEN putFailures ELSE putFailures + 1
    /\ storageFault' = FALSE
    /\ sent' = <<>>
    /\ last' = Logged("init")
    /\ UNCHANGED <<quota, broken, delivered, applied, replica, hook, voteSets, pending>>
    /\ UNCHANGED <<sockets, seq>>

\* handleRoomRoutes, POST /api/rooms, when generateId(8) returns the id of a
\* room that exists: idFromName leads to the object of that room and its
\* POST /init assigns this.room and puts it without looking at what the
\* object holds; the accepted sockets stay with the object
CreateRoomAgain ==
    /\ room # NoRoom /\ storage # NoRoom
    /\ seq.init < quota.init
    /\ \E name \in LaterRoomNames, key \in NewOwnerKeys :
        /\ room' = InitRoom(name, key)
        /\ storage' = IF PutOk THEN PutValue(InitRoom(name, key)) ELSE storage
        /\ response' = IF PutOk THEN CreateResponse(key) ELSE [status |-> 500]
    /\ putFailures' = IF PutOk THEN putFailures ELSE putFailures + 1
    /\ storageFault' = FALSE
    /\ sent' = <<>>
    /\ last' = Logged("init again")
    /\ seq' = [seq EXCEPT !.init = @ + 1]
    /\ UNCHANGED <<quota, broken, delivered, applied, replica, hook, voteSets, pending>>
    /\ UNCHANGED sockets

\* RoomDO.fetch, /info
InfoBody(r) == IF r = NoRoom THEN [exists |-> FALSE]
               ELSE [exists |-> TRUE, name |-> r.name]

\* handleRoomRoutes, GET /api/rooms/:id
RoomInfo ==
    /\ response' = [status |-> 200, body |-> InfoBody(room)]
    /\ sent' = <<>>
    /\ last' = Logged("info")
    /\ UNCHANGED <<quota, broken, delivered, applied, replica, hook, voteSets, pending>>
    /\ UNCHANGED <<room, storage, sockets, seq, putFailures, storageFault>>

(* ---------------------------- connections ----------------------------- *)
\* the room object itself, as storage holds it
SnapshotWhole(r) == r

\* the room as the "state" message carries it
Snapshot(r) ==
    [id |-> "", name |-> r.name, mode |-> r.mode, columns |-> r.columns,
     cards |-> r.cards, groups |-> r.groups, focusedCardId |-> r.focusedCardId,
     createdAt |-> r.createdAt]

\* an identity that takes the userId of the URL when there is one
PresentedUserId(userId) == IF userId # 0 THEN userId ELSE seq.user + 1

\* id: generateId(16); the userId parameter of the URL is not read
MintUserId(userId) == seq.user + 1

\* isOwner: false; the ownerKey parameter of the URL is not read
IsOwner(ownerKey) == FALSE

\* what a client may put in the URL of the WebSocket: no userId (0) or one
\* that was issued, no ownerKey ("") or a key
UserIdInputs == 0..quota.user
ConnectKeyInputs == PresentedKeys \cup {""}

\* RoomDO.fetch, WebSocket upgrade
Upgrade(userId, ownerKey) ==
    /\ InputGate
    /\ room # NoRoom
    /\ storage # NoRoom
    /\ seq.user < quota.user
    /\ \E name \in AnonNames :
        LET ws == seq.user + 1
            user == [id |-> MintUserId(userId), name |-> name,
                     isOwner |-> IsOwner(ownerKey), votesCount |-> 0]
            socks == [w \in DOMAIN sockets \cup {ws} |->
                         IF w = ws THEN user ELSE sockets[w]]
        IN /\ sockets' = socks
           /\ seq' = [seq EXCEPT !.user = ws]
           /\ sent' = Send(ws, [type |-> "state", room |-> Snapshot(room),
                                user |-> user, users |-> GetAllUsers(socks)])
                      \o Broadcast(socks, [type |-> "user_joined", user |-> user], ws)
    /\ response' = [status |-> 101]
    /\ last' = Logged("connect")
    /\ delivered' = Delivered(sent', sockets')
    /\ replica' = Replicas(sent', sockets')
    /\ UNCHANGED <<quota, broken, applied, hook, voteSets, pending>>
    /\ UNCHANGED <<room, storage, putFailures, storageFault>>

\* a client opens the WebSocket of the room
Connect == \E userId \in UserIdInputs, ownerKey \in ConnectKeyInputs :
               Upgrade(userId, ownerKey)

\* RoomDO.webSocketClose
Close(ws) ==
    /\ InputGate
    /\ ws \in DOMAIN sockets
    /\ sockets' = [w \in DOMAIN sockets \ {ws} |-> sockets[w]]
    /\ sent' = Broadcast(sockets, [type |-> "user_left", userId |-> sockets[ws].id], ws)
    /\ response' = NoResponse
    /\ last' = Logged("close")
    /\ broken' = broken \ {ws}
    /\ delivered' = Delivered(sent', sockets')
    /\ replica' = Replicas(sent', sockets')
    /\ UNCHANGED <<quota, applied, hook, voteSets, pending>>
    /\ UNCHANGED <<room, storage, seq, putFailures, storageFault>>

\* RoomDO constructor after an eviction: this.room is read back from storage
Constructor ==
    /\ room # storage
    /\ room' = storage
    /\ sent' = <<>>
    /\ response' = NoResponse
    /\ last' = Logged("constructor")
    /\ UNCHANGED <<quota, broken, delivered, applied, replica, hook, voteSets, pending>>
    /\ UNCHANGED <<storage, sockets, seq, putFailures, storageFault>>

(* --------------------------- column handlers -------------------------- *)
\* handleAddColumn
HandleAddColumn(name) ==
    IF Blank(name)
    THEN NoOp
    ELSE LET column == [id |-> seq.column + 1, name |-> Trim(name),
                        order |-> Len(room.columns)]
             r == [room EXCEPT !.columns = Append(@, column)]
         IN /\ seq.column < quota.column
            /\ PutAndBroadcast(r, Broadcast(sockets,
                   [type |-> "column_added", column |-> column], 0))
            /\ seq' = [seq EXCEPT !.column = @ + 1]
            /\ UNCHANGED sockets

\* handleUpdateColumn
HandleUpdateColumn(columnId, name) ==
    LET i == IndexOfId(room.columns, columnId)
    IN IF columnId = 0 \/ Blank(name) \/ i = 0
       THEN NoOp
       ELSE LET column == [room.columns[i] EXCEPT !.name = Trim(name)]
                r == [room EXCEPT !.columns[i] = column]
            IN /\ PutAndBroadcast(r, Broadcast(sockets,
                      [type |-> "column_updated", column |-> column], 0))
               /\ UNCHANGED <<seq, sockets>>

\* columns.splice(index, 1), then col.order = i for the rest
RemoveColumn(columns, index) ==
    LET rest == Splice(columns, index)
    IN [j \in DOMAIN rest |-> [rest[j] EXCEPT !.order = j - 1]]

\* handleDeleteColumn
HandleDeleteColumn(columnId) ==
    LET index == IndexOfId(room.columns, columnId)
    IN IF columnId = 0 \/ index = 0
       THEN NoOp
       ELSE /\ PutAndBroadcast(
                   [room EXCEPT !.columns = RemoveColumn(@, index)],
                   Broadcast(sockets,
                       [type |-> "column_deleted", columnId |-> columnId], 0))
            /\ UNCHANGED <<seq, sockets>>

\* the columnIds.map(...) of handleReorderColumns: every entry is the one
\* column object of that id, whose order was last written at the id's last
\* position in the list
ReorderedColumns(columns, columnIds) ==
    LET col(id) == columns[IndexOfId(columns, id)]
        lastPos(id) == CHOOSE i \in DOMAIN columnIds :
                           /\ columnIds[i] = id
                           /\ \A j \in DOMAIN columnIds : columnIds[j] = id => j <= i
    IN [i \in DOMAIN columnIds |->
           [col(columnIds[i]) EXCEPT !.order = lastPos(columnIds[i]) - 1]]

\* handleReorderColumns
HandleReorderColumns(columnIds) ==
    LET existingIds == {c.id : c \in Range(room.columns)}
    IN IF Len(columnIds) = 0 \/ ~(\A i \in DOMAIN columnIds : columnIds[i] \in existingIds)
       THEN NoOp
       ELSE /\ PutAndBroadcast(
                   [room EXCEPT !.columns = ReorderedColumns(@, columnIds)],
                   Broadcast(sockets,
                       [type |-> "columns_reordered", columnIds |-> columnIds], 0))
            /\ UNCHANGED <<seq, sockets>>

\* handleSetMode
HandleSetMode(mode) ==
    IF mode = ""
    THEN NoOp
    ELSE /\ PutAndBroadcast([room EXCEPT !.mode = mode],
                Broadcast(sockets, [type |-> "mode_changed", mode |-> mode], 0))
         /\ UNCHANGED <<seq, sockets>>

(* ---------------------------- card handlers --------------------------- *)
CardIndex(r, cardId) == IndexOfId(r.cards, cardId)
GroupIndex(r, groupId) == IndexOfId(r.groups, groupId)

\* cards.map(c => c.id === cardId ? {...c, groupId} : c), as the handlers
\* write card.groupId through the object they found
SetGroupId(cards, cardIds, groupId) ==
    [i \in DOMAIN cards |->
        IF cards[i].id \in cardIds THEN [cards[i] EXCEPT !.groupId = groupId]
        ELSE cards[i]]

\* a publish that does not measure the content
TooLongNever(trimmedContent) == FALSE

\* trimmedContent.length > 1000
TooLong(trimmedContent) == StrLen(trimmedContent) > MaxContentLength

\* handlePublishCard
HandlePublishCard(ws, columnId, content) ==
    IF columnId = 0 \/ Blank(content)
           \/ IndexOfId(room.columns, columnId) = 0
    THEN NoOp
    ELSE IF TooLong(Trim(content))
    THEN Reply(ws, ErrorMsg("CONTENT_TOO_LONG",
                            "Card content cannot exceed 1000 characters"))
    ELSE LET user == sockets[ws]
             card == [id |-> seq.card + 1, columnId |-> columnId,
                      content |-> Trim(content), authorId |-> user.id,
                      authorName |-> user.name, votes |-> 0, groupId |-> 0,
                      actionItems |-> <<>>]
             r == [room EXCEPT !.cards = Append(@, card)]
         IN /\ seq.card < quota.card
            /\ PutAndBroadcast(r, Broadcast(sockets,
                   [type |-> "card_published", card |-> card], 0))
            /\ seq' = [seq EXCEPT !.card = @ + 1]
            /\ UNCHANGED sockets

\* group.cardIds = group.cardIds.filter(id => id !== cardId); the group is
\* removed when fewer than 2 ids remain, and the groupId of the one card
\* that remains, if it is found, is cleared
LeaveGroup(r, gi, cardId) ==
    LET group == r.groups[gi]
        cardIds == SelectSeq(group.cardIds, LAMBDA id : id # cardId)
    IN IF Len(cardIds) < 2
       THEN [r EXCEPT !.groups = Splice(@, gi),
                      !.cards = IF Len(cardIds) = 1
                                THEN SetGroupId(@, {cardIds[1]}, 0) ELSE @]
       ELSE [r EXCEPT !.groups[gi].cardIds = cardIds]

\* a delete that does not compare the author
IsAuthorAny(card, user) == TRUE

\* card.authorId !== user.id, negated
IsAuthor(card, user) == card.authorId = user.id

\* handleDeleteCard
HandleDeleteCard(ws, cardId) ==
    LET user == sockets[ws]
        cardIndex == CardIndex(room, cardId)
        card == room.cards[cardIndex]
        gi == GroupIndex(room, card.groupId)
        left == IF card.groupId # 0 /\ gi # 0 THEN LeaveGroup(room, gi, cardId)
                ELSE room
        r == [left EXCEPT !.cards = Splice(@, cardIndex)]
    IN IF cardId = 0 \/ cardIndex = 0
       THEN NoOp
       ELSE IF ~IsAuthor(card, user)
       THEN Reply(ws, ErrorMsg("UNAUTHORIZED", "You can only delete your own cards"))
       ELSE /\ PutAndBroadcast(r, Broadcast(sockets,
                   [type |-> "card_deleted", cardId |-> cardId], 0))
            /\ UNCHANGED <<seq, sockets>>

\* for (const card of cards) if (!group.cardIds.includes(card.id)) push
RECURSIVE PushMissing(_, _)
PushMissing(cardIds, ids) ==
    IF ids = <<>> THEN cardIds
    ELSE PushMissing(IF Head(ids) \in Range(cardIds) THEN cardIds
                     ELSE Append(cardIds, Head(ids)), Tail(ids))

\* grouping without the comparison of columns
SameColumnAny(r, cardIds) == TRUE

\* cards.every(c => c.columnId === cards[0].columnId)
SameColumn(r, cardIds) ==
    \A i \in DOMAIN cardIds :
        r.cards[CardIndex(r, cardIds[i])].columnId
            = r.cards[CardIndex(r, cardIds[1])].columnId

\* cards.find(c => c.groupId)?.groupId, 0 when no card has one
ExistingGroupId(r, cardIds) ==
    LET i == FindIndex([k \in DOMAIN cardIds |->
                           r.cards[CardIndex(r, cardIds[k])].groupId # 0])
    IN IF i = 0 THEN 0 ELSE r.cards[CardIndex(r, cardIds[i])].groupId

\* handleGroupCards
HandleGroupCards(cardIds) ==
    IF Len(cardIds) < 2
    THEN NoOp
    ELSE IF \E i \in DOMAIN cardIds : CardIndex(room, cardIds[i]) = 0
    THEN NoOp
    ELSE IF ~SameColumn(room, cardIds)
    THEN NoOp
    ELSE LET existingGroupId == ExistingGroupId(room, cardIds)
             gi == GroupIndex(room, existingGroupId)
         IN IF existingGroupId # 0
            THEN IF gi = 0
                 THEN NoOp
                 ELSE LET group == [room.groups[gi] EXCEPT
                                       !.cardIds = PushMissing(@, cardIds)]
                          r == [room EXCEPT
                                   !.groups[gi] = group,
                                   !.cards = SetGroupId(@, Range(cardIds), group.id)]
                      IN /\ PutAndBroadcast(r,
                                Broadcast(sockets,
                                    [type |-> "cards_grouped", group |-> group], 0))
                         /\ UNCHANGED <<seq, sockets>>
            ELSE LET group == [id |-> seq.group + 1, cardIds |-> cardIds]
                     r == [room EXCEPT
                              !.groups = Append(@, group),
                              !.cards = SetGroupId(@, Range(cardIds), group.id)]
                 IN /\ seq.group < quota.group
                    /\ PutAndBroadcast(r, Broadcast(sockets,
                           [type |-> "cards_grouped", group |-> group], 0))
                    /\ seq' = [seq EXCEPT !.group = @ + 1]
                    /\ UNCHANGED sockets

\* handleUngroupCard
HandleUngroupCard(cardId) ==
    LET cardIndex == CardIndex(room, cardId)
        card == room.cards[cardIndex]
        gi == GroupIndex(room, card.groupId)
        cleared == [room EXCEPT !.cards[cardIndex].groupId = 0]
    IN IF cardId = 0 \/ cardIndex = 0
       THEN NoOp
       ELSE IF card.groupId = 0 \/ gi = 0
       THEN NoOp
       ELSE /\ PutAndBroadcast(LeaveGroup(cleared, gi, cardId),
                   Broadcast(sockets,
                       [type |-> "card_ungrouped", cardId |-> cardId], 0))
            /\ UNCHANGED <<seq, sockets>>

(* ------------------------ vote, focus and actions --------------------- *)
\* handleVote
HandleVote(ws, cardId, vote) ==
    LET cardIndex == CardIndex(room, cardId)
        votes == room.cards[cardIndex].votes + (IF vote THEN 1 ELSE 0)
        r == [room EXCEPT !.cards[cardIndex].votes = votes]
        user == [sockets[ws] EXCEPT !.votesCount = @ + 1]
    IN IF cardId = 0 \/ cardIndex = 0
       THEN NoOp
       ELSE /\ seq.vote < quota.vote
            /\ PutAndBroadcast(r,
                       Broadcast(sockets, [type |-> "vote_recorded",
                                           cardId |-> cardId, votes |-> votes], 0)
                       \o Broadcast(sockets, [type |-> "vote_progress",
                                              userId |-> user.id,
                                              votesCount |-> user.votesCount], 0))
            /\ sockets' = IF PutOk THEN [sockets EXCEPT ![ws] = user] ELSE sockets
            /\ seq' = [seq EXCEPT !.vote = @ + 1]

\* handleSetFocus; a cardId of 0 is null
HandleSetFocus(cardId) ==
    IF cardId # 0 /\ CardIndex(room, cardId) = 0
    THEN NoOp
    ELSE /\ PutAndBroadcast([room EXCEPT !.focusedCardId = cardId],
                Broadcast(sockets, [type |-> "focus_changed", cardId |-> cardId], 0))
         /\ UNCHANGED <<seq, sockets>>

\* handleAddAction
HandleAddAction(cardId, content) ==
    LET cardIndex == CardIndex(room, cardId)
        action == [id |-> seq.action + 1, content |-> Trim(content)]
        r == [room EXCEPT !.cards[cardIndex].actionItems = Append(@, action)]
    IN IF cardId = 0 \/ Blank(content) \/ cardIndex = 0
       THEN NoOp
       ELSE /\ seq.action < quota.action
            /\ PutAndBroadcast(r, Broadcast(sockets,
                   [type |-> "action_added", cardId |-> cardId, action |-> action], 0))
            /\ seq' = [seq EXCEPT !.action = @ + 1]
            /\ UNCHANGED sockets

(* ------------------------------ dispatch ------------------------------ *)
\* the message types a client sends that start with "owner:"
OwnerTypes == {"owner:add_column", "owner:update_column", "owner:delete_column",
               "owner:reorder_columns", "owner:set_mode", "owner:set_focus",
               "owner:add_action", "owner:set_vote_settings"}

\* type.startsWith("owner:")
StartsWithOwner(type) == type \in OwnerTypes

\* the owner gate without the comparison of keys
ValidateOwnerKeyAny(key) == room # NoRoom

\* RoomDO.validateOwnerKey
ValidateOwnerKey(key) == room # NoRoom /\ room.ownerKey = key

\* the owner gate of handleMessage: whether the message goes on to the switch
PassesOwnerGate(data) ==
    StartsWithOwner(data.type) => ValidateOwnerKey(data.ownerKey)

\* the switch of handleMessage
Dispatch(ws, data) ==
    CASE data.type = "ping" -> Reply(ws, [type |-> "pong"])
      [] data.type = "owner:add_column" -> HandleAddColumn(data.name)
      [] data.type = "owner:update_column" -> HandleUpdateColumn(data.columnId, data.name)
      [] data.type = "owner:delete_column" -> HandleDeleteColumn(data.columnId)
      [] data.type = "owner:reorder_columns" -> HandleReorderColumns(data.columnIds)
      [] data.type = "owner:set_mode" -> HandleSetMode(data.mode)
      [] data.type = "publish_card" -> HandlePublishCard(ws, data.columnId, data.content)
      [] data.type = "delete_card" -> HandleDeleteCard(ws, data.cardId)
      [] data.type = "group_cards" -> HandleGroupCards(data.cardIds)
      [] data.type = "ungroup_card" -> HandleUngroupCard(data.cardId)
      [] data.type = "vote" -> HandleVote(ws, data.cardId, data.vote)
      [] data.type = "owner:set_focus" -> HandleSetFocus(data.cardId)
      [] data.type = "owner:add_action" -> HandleAddAction(data.cardId, data.content)
      [] OTHER -> NoOp

\* what `last` keeps of a message: its type, and of the vote settings which
\* of the two limits they set
EventOf(data) ==
    IF data.type = "owner:set_vote_settings" /\ data.votesPerColumnLimit # 0
    THEN "owner:set_vote_settings votesPerColumnLimit"
    ELSE data.type

\* webSocketMessage and handleMessage
HandleMessage(ws, data) ==
    /\ InputGate
    /\ ws \in DOMAIN sockets
    /\ last' = Logged(EventOf(data))
    /\ UNCHANGED <<quota, broken>>
    /\ IF room = NoRoom
       THEN NoOp
       ELSE IF ~PassesOwnerGate(data)
       THEN Reply(ws, ErrorMsg("UNAUTHORIZED", "Invalid owner key"))
       ELSE Dispatch(ws, data)
    /\ delivered' = Delivered(sent', sockets)
    /\ applied' = Applied(room, room')
    /\ replica' = Replicas(sent', sockets)
    /\ UNCHANGED <<hook, voteSets, pending>>

(* ------------------------- messages of clients ------------------------ *)
\* what a client may send for an id: empty, the ids this run can generate,
\* and an unknown one
ColumnIdInputs == 0..quota.column \cup {UnknownId}
CardIdInputs == 0..quota.card \cup {UnknownId}
ColumnIdLists == UNION {[1..n -> 1..quota.column \cup {UnknownId}] : n \in 0..MaxIdList}
CardIdLists == UNION {[1..n -> 1..quota.card \cup {UnknownId}] : n \in 1..MaxIdList}

AddColumnMsgs ==
    [type : {"owner:add_column"}, ownerKey : PresentedKeys, name : ColumnNameInputs]
UpdateColumnMsgs ==
    [type : {"owner:update_column"}, ownerKey : PresentedKeys,
     columnId : ColumnIdInputs, name : ColumnNameInputs]
DeleteColumnMsgs ==
    [type : {"owner:delete_column"}, ownerKey : PresentedKeys, columnId : ColumnIdInputs]
ReorderColumnsMsgs ==
    [type : {"owner:reorder_columns"}, ownerKey : PresentedKeys, columnIds : ColumnIdLists]
SetModeMsgs == [type : {"owner:set_mode"}, ownerKey : PresentedKeys, mode : ModeInputs]
SetFocusMsgs == [type : {"owner:set_focus"}, ownerKey : PresentedKeys, cardId : CardIdInputs]
AddActionMsgs ==
    [type : {"owner:add_action"}, ownerKey : PresentedKeys,
     cardId : CardIdInputs, content : ActionInputs]
PublishCardMsgs ==
    [type : {"publish_card"}, columnId : ColumnIdInputs, content : ContentInputs]
DeleteCardMsgs == [type : {"delete_card"}, cardId : CardIdInputs]
GroupCardsMsgs == [type : {"group_cards"}, cardIds : CardIdLists]
UngroupCardMsgs == [type : {"ungroup_card"}, cardId : CardIdInputs]
VoteMsgs == [type : {"vote"}, cardId : CardIdInputs, vote : BOOLEAN]
PingMsgs == [type : {"ping"}]
\* messages of the client that the switch has no case for
SetVoteSettingsMsgs ==
    {m \in [type : {"owner:set_vote_settings"}, ownerKey : PresentedKeys,
            totalVotesLimit : {0, 1}, votesPerColumnLimit : {0, 1}] :
        m.totalVotesLimit + m.votesPerColumnLimit = 1}
\* editCard(card.id, trimmed) of the card component; the switch of
\* handleMessage has no case for it under any type
EditCardMsgs ==
    [type : {"edit_card"}, cardId : CardIdInputs, content : {Str(0, 0, 1), Str(0, 2, 0)}]
OtherMsgs ==
    SetVoteSettingsMsgs \cup [type : {"toggle_vote", "rename_user"}] \cup EditCardMsgs

OwnerMsgs ==
    AddColumnMsgs \cup UpdateColumnMsgs \cup DeleteColumnMsgs \cup ReorderColumnsMsgs
        \cup SetModeMsgs \cup SetFocusMsgs \cup AddActionMsgs \cup SetVoteSettingsMsgs

Conns == 1..quota.user

AddColumn == \E ws \in Conns, data \in AddColumnMsgs : HandleMessage(ws, data)
UpdateColumn == \E ws \in Conns, data \in UpdateColumnMsgs : HandleMessage(ws, data)
DeleteColumn == \E ws \in Conns, data \in DeleteColumnMsgs : HandleMessage(ws, data)
ReorderColumns == \E ws \in Conns, data \in ReorderColumnsMsgs : HandleMessage(ws, data)
SetMode == \E ws \in Conns, data \in SetModeMsgs : HandleMessage(ws, data)
SetFocus == \E ws \in Conns, data \in SetFocusMsgs : HandleMessage(ws, data)
AddAction == \E ws \in Conns, data \in AddActionMsgs : HandleMessage(ws, data)
PublishCard == \E ws \in Conns, data \in PublishCardMsgs : HandleMessage(ws, data)
DeleteCard == \E ws \in Conns, data \in DeleteCardMsgs : HandleMessage(ws, data)
GroupCards == \E ws \in Conns, data \in GroupCardsMsgs : HandleMessage(ws, data)
UngroupCard == \E ws \in Conns, data \in UngroupCardMsgs : HandleMessage(ws, data)
Vote == \E ws \in Conns, data \in VoteMsgs : HandleMessage(ws, data)
Ping == \E ws \in Conns, data \in PingMsgs : HandleMessage(ws, data)
OtherMessage == \E ws \in Conns, data \in OtherMsgs : HandleMessage(ws, data)
Disconnect == \E ws \in Conns : Close(ws)

\* a client goes away without a close frame: until webSocketClose is
\* delivered the socket is still accepted and every send to it throws
SocketBreaks ==
    /\ \E ws \in DOMAIN sockets \ broken : broken' = broken \cup {ws}
    /\ Cardinality(broken) < quota.break
    /\ sent' = <<>>
    /\ response' = NoResponse
    /\ last' = Logged("break")
    /\ UNCHANGED <<room, storage, sockets, seq, putFailures, storageFault, quota>>
    /\ UNCHANGED <<delivered, applied, replica, hook, voteSets, pending>>

(* --------------------------- specifications --------------------------- *)
Quota(users, columns, cards, groups, votes, actions, faults, log) ==
    [user |-> users, column |-> columns, card |-> cards, group |-> groups,
     vote |-> votes, action |-> actions, fault |-> faults, log |-> log,
     break |-> 0, init |-> 0, history |-> FALSE, replica |-> FALSE,
     toggle |-> 0, send |-> 0, close |-> 0, mount |-> 0]

\* the state after construction, nothing stored
InitWith(q) ==
    /\ room = NoRoom
    /\ storage = NoRoom
    /\ sockets = <<>>
    /\ sent = <<>>
    /\ response = NoResponse
    /\ seq = [user |-> 0, column |-> 0, card |-> 0, group |-> 0, vote |-> 0, action |-> 0,
             init |-> 0]
    /\ putFailures = 0
    /\ storageFault = FALSE
    /\ last = ""
    /\ quota = q
    /\ broken = {}
    /\ delivered = <<>>
    /\ applied = <<>>
    /\ replica = <<>>
    /\ hook = HookInit
    /\ voteSets = <<>>
    /\ pending = <<>>

\* the whole room: every route and every message type
Init == InitWith(Quota(FewUsers, FewColumns, FewCards, FewGroups, FewVotes,
                       MaxActions, MaxPutFailures, FALSE))

Next ==
    \/ CreateRoom
    \/ RoomInfo
    \/ Connect
    \/ Disconnect
    \/ Constructor
    \/ StorageFault
    \/ AddColumn
    \/ UpdateColumn
    \/ DeleteColumn
    \/ ReorderColumns
    \/ SetMode
    \/ SetFocus
    \/ AddAction
    \/ PublishCard
    \/ DeleteCard
    \/ GroupCards
    \/ UngroupCard
    \/ Vote
    \/ Ping
    \/ OtherMessage

Spec == Init /\ [][Next]_vars

\* the owner's operations, two participants
InitOwner == InitWith(Quota(MaxUsers, FewColumns, FewCards, 0, 0, MaxActions, 0, TRUE))

NextOwner ==
    \/ CreateRoom
    \/ Connect
    \/ AddColumn
    \/ UpdateColumn
    \/ DeleteColumn
    \/ ReorderColumns
    \/ SetMode
    \/ PublishCard
    \/ SetFocus
    \/ AddAction
    \/ OtherMessage

SpecOwner == InitOwner /\ [][NextOwner]_vars

\* cards and their groups, one participant
InitCards == InitWith(Quota(FewUsers, MaxColumns, MaxCards, FewGroups, 0, 0, 0, TRUE))

NextCards ==
    \/ CreateRoom
    \/ Connect
    \/ AddColumn
    \/ PublishCard
    \/ DeleteCard
    \/ GroupCards
    \/ UngroupCard

SpecCards == InitCards /\ [][NextCards]_vars

\* several groups in one column
InitGroups == InitWith(Quota(FewUsers, FewColumns, MaxCards, MaxGroups, 0, 0, 0, FALSE))

SpecGroups == InitGroups /\ [][NextCards]_vars

\* voting, two participants
InitVotes == InitWith(Quota(MaxUsers, FewColumns, MaxCards, 0, MaxVotes, 0, 0, TRUE))

NextVotes ==
    \/ CreateRoom
    \/ Connect
    \/ AddColumn
    \/ PublishCard
    \/ Vote
    \/ OtherMessage

SpecVotes == InitVotes /\ [][NextVotes]_vars
\* connects and restarts between the operations on cards, two participants
InitSerial == InitWith(Quota(MaxUsers, FewColumns, FewCards, FewGroups, 0, 0,
                             MaxPutFailures, FALSE))

NextSerial ==
    \/ CreateRoom
    \/ Connect
    \/ Constructor
    \/ StorageFault
    \/ AddColumn
    \/ PublishCard
    \/ DeleteCard
    \/ GroupCards
    \/ UngroupCard

SpecSerial == InitSerial /\ [][NextSerial]_vars

(* ------------------------------- claims ------------------------------- *)
UnauthorizedMsg == ErrorMsg("UNAUTHORIZED", "Invalid owner key")

\* C1: a message of an owner-only type that presents a key other than the
\* room's owner key changes neither the room nor storage and sends one
\* message, the UNAUTHORIZED error, to the connection that sent it.
C1_OwnerGate ==
    [][\A ws \in DOMAIN sockets : \A data \in OwnerMsgs :
          (room # NoRoom /\ data.ownerKey # room.ownerKey /\ HandleMessage(ws, data))
              => /\ room' = room
                 /\ storage' = storage
                 /\ sent' = <<[to |-> ws, msg |-> UnauthorizedMsg]>>]_vars

\* an owner message was just refused while a second connection was live and
\* the room had a column
C1_Witness ==
    /\ Cardinality(DOMAIN sockets) = 2
    /\ last \in OwnerTypes
    /\ Len(sent) = 1 /\ sent[1].msg = UnauthorizedMsg
    /\ Len(room.columns) > 0

(* C2 *)
HasOwnerKey(rec) == "ownerKey" \in DOMAIN rec

MsgCarriesOwnerKey(m) ==
    \/ HasOwnerKey(m)
    \/ m.type = "state" /\ (HasOwnerKey(m.room) \/ HasOwnerKey(m.user))

\* C2: no message sent to a connection and no answer to a room lookup
\* carries the owner key; the one response that carries it is the answer to
\* the creation of the room, before any connection exists.
C2_OwnerKeyNotExposed ==
    /\ \A i \in DOMAIN sent : ~MsgCarriesOwnerKey(sent[i].msg)
    /\ "body" \in DOMAIN response =>
          /\ ~HasOwnerKey(response.body)
          /\ room # NoRoom => response.body.name # room.ownerKey
    /\ HasOwnerKey(response) =>
          /\ response = CreateResponse(room.ownerKey)
          /\ storage = InitRoom(room.name, room.ownerKey)
          /\ DOMAIN sockets = {}

\* a snapshot of a room that holds an owner key was just sent
C2_Witness ==
    /\ room # NoRoom /\ room.ownerKey \in OwnerKeys
    /\ \E i \in DOMAIN sent :
          sent[i].msg.type = "state" /\ sent[i].msg.room.name = room.name

(* C3 *)
\* C3: whenever an event describing a mutation has been sent, storage holds
\* the room with that mutation; an operation whose save fails sends nothing.
C3_PersistBeforeBroadcast ==
    /\ [](\A i \in DOMAIN sent :
             sent[i].msg.type \in DeltaTypes => storage = room)
    /\ [][putFailures' # putFailures => sent' = <<>>]_vars

\* a save has just failed: the mutation is in memory only and nothing was sent
C3_Witness ==
    /\ putFailures = 1 /\ ~storageFault
    /\ DOMAIN sockets # {}
    /\ storage # NoRoom /\ room # storage
    /\ sent = <<>>

StoredGroups == IF storage = NoRoom THEN {} ELSE Range(storage.groups)
StoredCards == IF storage = NoRoom THEN {} ELSE Range(storage.cards)

\* C5: in every stored state every group has at least 2 member cards.
C5_GroupsHaveTwoMembers ==
    \A g \in StoredGroups : Cardinality(Range(g.cardIds)) >= 2

(* C6 *)
\* C6: a card's groupId names a group exactly when that group lists the
\* card, and no card is listed by two groups.
C6_GroupMembershipConsistent ==
    /\ \A c \in StoredCards :
          c.groupId # 0 =>
              \E g \in StoredGroups : g.id = c.groupId /\ c.id \in Range(g.cardIds)
    /\ \A g \in StoredGroups : \A c \in StoredCards :
          c.id \in Range(g.cardIds) => c.groupId = g.id
    /\ \A g, h \in StoredGroups :
          g.id # h.id => Range(g.cardIds) \cap Range(h.cardIds) = {}

(* C7 *)
\* two of the ids name cards of different columns
MixedColumns(r, cardIds) ==
    \E i, j \in DOMAIN cardIds :
        /\ CardIndex(r, cardIds[i]) # 0 /\ CardIndex(r, cardIds[j]) # 0
        /\ r.cards[CardIndex(r, cardIds[i])].columnId
              # r.cards[CardIndex(r, cardIds[j])].columnId

\* C7: group_cards with cards of more than one column leaves the room and
\* storage unchanged and sends nothing; all cards listed by a group are in
\* one column.
C7_GroupWithinOneColumn ==
    /\ [][\A ws \in DOMAIN sockets : \A data \in GroupCardsMsgs :
             (room # NoRoom /\ MixedColumns(room, data.cardIds)
                  /\ HandleMessage(ws, data))
                 => room' = room /\ storage' = storage /\ sent' = <<>>]_vars
    /\ [](\A g \in StoredGroups : \A c, d \in StoredCards :
             (c.id \in Range(g.cardIds) /\ d.id \in Range(g.cardIds))
                 => c.columnId = d.columnId)

\* group_cards was just refused in a room that holds a group of two cards
\* and an ungrouped card of another column
C7_Witness ==
    /\ last = "group_cards" /\ sent = <<>>
    /\ \E g \in StoredGroups : \E c \in StoredCards :
          /\ Cardinality(Range(g.cardIds)) = 2
          /\ c.groupId = 0
          /\ \E d \in StoredCards : d.groupId = g.id /\ d.columnId # c.columnId

(* C8 *)
\* the connection's participant has just cast the first vote of the room, a
\* yes, on the card
FirstVoteJustCast(ws, cardId) ==
    /\ seq.vote = 1
    /\ \E i, j \in DOMAIN sent :
          /\ sent[i].msg.type = "vote_recorded"
          /\ sent[i].msg.cardId = cardId /\ sent[i].msg.votes = 1
          /\ sent[j].msg.type = "vote_progress"
          /\ sent[j].msg.userId = sockets[ws].id

\* C8: a second vote of the same participant on the same card, directly
\* after the first, restores the card's vote count of before the first.
C8_SecondVoteRestores ==
    [][\A ws \in DOMAIN sockets : \A data \in VoteMsgs :
          (data.vote /\ FirstVoteJustCast(ws, data.cardId) /\ HandleMessage(ws, data))
              => room'.cards[CardIndex(room', data.cardId)].votes = 0]_vars

(* C9 *)
Voters == {ws \in DOMAIN sockets : sockets[ws].votesCount > 0}

\* C9: the vote count of a card, stored or reported, is at most the number
\* of participants that have voted.
C9_CountsDistinctVoters ==
    /\ room # NoRoom => \A c \in Range(room.cards) : c.votes <= Cardinality(Voters)
    /\ \A i \in DOMAIN sent :
          sent[i].msg.type = "vote_recorded" => sent[i].msg.votes <= Cardinality(Voters)

(* C10 *)
\* the owner has just set a total vote limit of 1: the message passed the
\* owner gate
LimitJustSet == last = "owner:set_vote_settings" /\ sent = <<>>

\* C10: with a total vote limit of 1 set, the vote of a participant who has
\* already voted one card, on another card, is answered with
\* VOTE_LIMIT_REACHED and leaves the room unchanged.
C10_TotalVoteLimit ==
    [][\A ws \in DOMAIN sockets : \A data \in VoteMsgs :
          (/\ data.vote
           /\ LimitJustSet
           /\ seq.vote = 1 /\ sockets[ws].votesCount = 1
           /\ CardIndex(room, data.cardId) # 0
           /\ room.cards[CardIndex(room, data.cardId)].votes = 0
           /\ \E c \in Range(room.cards) : c.votes = 1
           /\ HandleMessage(ws, data))
              => /\ room' = room
                 /\ \E i \in DOMAIN sent' :
                       /\ sent'[i].to = ws
                       /\ sent'[i].msg.type = "error"
                       /\ sent'[i].msg.code = "VOTE_LIMIT_REACHED"]_vars

(* C11 *)
\* the owner has just set a limit of 1 vote per column: the message passed
\* the owner gate
ColumnLimitJustSet ==
    last = "owner:set_vote_settings votesPerColumnLimit" /\ sent = <<>>

\* C11: with a limit of 1 vote per column set, the vote of a participant who
\* has already voted one card of a column, on another card of that column, is
\* answered with COLUMN_VOTE_LIMIT_REACHED and leaves the room unchanged.
C11_ColumnVoteLimit ==
    [][\A ws \in DOMAIN sockets : \A data \in VoteMsgs :
          (/\ data.vote
           /\ ColumnLimitJustSet
           /\ seq.vote = 1 /\ sockets[ws].votesCount = 1
           /\ CardIndex(room, data.cardId) # 0
           /\ room.cards[CardIndex(room, data.cardId)].votes = 0
           /\ \E c \in Range(room.cards) :
                 /\ c.votes = 1
                 /\ c.columnId = room.cards[CardIndex(room, data.cardId)].columnId
           /\ HandleMessage(ws, data))
              => /\ room' = room
                 /\ \E i \in DOMAIN sent' :
                       /\ sent'[i].to = ws
                       /\ sent'[i].msg.type = "error"
                       /\ sent'[i].msg.code = "COLUMN_VOTE_LIMIT_REACHED"]_vars

\* votes on the cards of a group
InitGroupVotes == InitWith(Quota(FewUsers, FewColumns, MaxCards, FewGroups, FewVotes,
                                 0, 0, TRUE))

NextGroupVotes ==
    \/ CreateRoom
    \/ Connect
    \/ AddColumn
    \/ PublishCard
    \/ GroupCards
    \/ UngroupCard
    \/ Vote

SpecGroupVotes == InitGroupVotes /\ [][NextGroupVotes]_vars

(* C12 *)
VoteTypes == {"vote_recorded", "vote_progress", "vote_toggled"}

\* C12: a vote on a card that has a groupId is answered with an error to
\* the sender: the card's vote count and the participant's vote count are
\* unchanged and no vote event is sent.
C12_GroupedCardVoteRejected ==
    [][\A ws \in DOMAIN sockets : \A data \in VoteMsgs :
          (/\ data.vote
           /\ CardIndex(room, data.cardId) # 0
           /\ room.cards[CardIndex(room, data.cardId)].groupId # 0
           /\ HandleMessage(ws, data))
              => /\ room' = room
                 /\ sockets' = sockets
                 /\ \A i \in DOMAIN sent' : sent'[i].msg.type \notin VoteTypes
                 /\ \E i \in DOMAIN sent' :
                       sent'[i].to = ws /\ sent'[i].msg.type = "error"]_vars

\* participants who come, leave and come back
InitConn == InitWith(Quota(ManyUsers, FewColumns, FewCards, 0, 0, 0, 0, TRUE))

NextConn ==
    \/ CreateRoom
    \/ Connect
    \/ Disconnect
    \/ AddColumn
    \/ PublishCard
    \/ DeleteCard

SpecConn == InitConn /\ [][NextConn]_vars

\* the identities bound to the accepted sockets
LiveIds == {sockets[w].id : w \in DOMAIN sockets}

(* C13 *)
\* C13: a connection that presents an issued user id that no accepted socket
\* is bound to is bound to that id; one that presents an id that an accepted
\* socket is bound to is bound to a new id.
C13_Rebind ==
    [][\A userId \in UserIdInputs : \A ownerKey \in ConnectKeyInputs :
          (userId \in 1..seq.user /\ Upgrade(userId, ownerKey))
              => IF userId \in LiveIds
                 THEN sockets'[seq.user + 1].id \notin LiveIds
                 ELSE sockets'[seq.user + 1].id = userId]_vars

(* C14 *)
\* C14: no two accepted sockets are bound to the same user id.
C14_IdsDistinct ==
    \A v, w \in DOMAIN sockets : v # w => sockets[v].id # sockets[w].id

\* a third connection has just been accepted after one of the first two
\* left: two sockets are live and three ids were issued
C14_Witness ==
    /\ last = "connect"
    /\ seq.user = 3
    /\ Cardinality(DOMAIN sockets) = 2

(* C15 *)
\* C15: the isOwner of the user bound at connect, in the socket's attachment,
\* in the snapshot and in its roster, is true exactly when the ownerKey
\* presented in the URL is the room's.
C15_OwnerFlag ==
    [][\A userId \in UserIdInputs : \A ownerKey \in ConnectKeyInputs :
          Upgrade(userId, ownerKey)
              => LET ws == seq.user + 1
                     owner == (ownerKey = room.ownerKey)
                 IN /\ sockets'[ws].isOwner = owner
                    /\ sent'[1].msg.user.isOwner = owner
                    /\ \A k \in DOMAIN sent'[1].msg.users :
                          sent'[1].msg.users[k].id = sockets'[ws].id
                              => sent'[1].msg.users[k].isOwner = owner]_vars

(* C16 *)
\* C16: on a connect the first message sent goes to the new socket and is
\* the snapshot of the room with the users of all accepted sockets, the new
\* one included; after it every other socket is sent user_joined once, the
\* new socket never.
C16_SnapshotThenJoined ==
    [][\A userId \in UserIdInputs : \A ownerKey \in ConnectKeyInputs :
          Upgrade(userId, ownerKey)
              => LET ws == seq.user + 1
                 IN /\ Len(sent') = 1 + Cardinality(DOMAIN sockets)
                    /\ sent'[1].to = ws
                    /\ sent'[1].msg.type = "state"
                    /\ sent'[1].msg.room = Snapshot(room)
                    /\ sent'[1].msg.user = sockets'[ws]
                    /\ Len(sent'[1].msg.users) = Cardinality(DOMAIN sockets')
                    /\ Range(sent'[1].msg.users) = {sockets'[w] : w \in DOMAIN sockets'}
                    /\ \A i \in 2..Len(sent') :
                          /\ sent'[i].to # ws
                          /\ sent'[i].msg = [type |-> "user_joined", user |-> sockets'[ws]]
                    /\ \A w \in DOMAIN sockets :
                          Cardinality({i \in 2..Len(sent') : sent'[i].to = w}) = 1]_vars

\* a third socket was just accepted next to two others
C16_Witness ==
    /\ last = "connect"
    /\ Cardinality(DOMAIN sockets) = 3
    /\ Len(sent) = 3
    /\ sent[1].msg.type = "state" /\ Len(sent[1].msg.users) = 3

(* C17 *)
\* C17: a close removes the socket from the accepted ones and sends
\* user_left with its user id once to each socket that remains and not to
\* the closed one; no message is ever sent to a socket that is not accepted,
\* and the users of a snapshot are those of the accepted sockets.
C17_LeftOnce ==
    /\ [][\A ws \in DOMAIN sockets :
             Close(ws)
                 => /\ ws \notin DOMAIN sockets'
                    /\ \A i \in DOMAIN sent' :
                          /\ sent'[i].to # ws
                          /\ sent'[i].msg = [type |-> "user_left",
                                             userId |-> sockets[ws].id]
                    /\ \A w \in DOMAIN sockets' :
                          Cardinality({i \in DOMAIN sent' : sent'[i].to = w}) = 1]_vars
    /\ [](\A i \in DOMAIN sent :
             /\ sent[i].to \in DOMAIN sockets
             /\ sent[i].msg.type = "state"
                   => {sent[i].msg.users[k].id : k \in DOMAIN sent[i].msg.users} = LiveIds)

\* one of three sockets has just closed and the two that remain were told
C17_Witness ==
    /\ last = "close"
    /\ Cardinality(DOMAIN sockets) = 2
    /\ Len(sent) = 2 /\ sent[1].msg.type = "user_left"

\* every kind of mutation with two sockets, one of which may break
InitBroadcast ==
    InitWith([Quota(MaxUsers, FewColumns, FewCards, FewGroups, FewVotes, MaxActions,
                    0, TRUE) EXCEPT !.break = MaxBroken])

NextBroadcast ==
    \/ CreateRoom
    \/ Connect
    \/ SocketBreaks
    \/ AddColumn
    \/ SetMode
    \/ PublishCard
    \/ GroupCards
    \/ Vote
    \/ SetFocus
    \/ AddAction

SpecBroadcast == InitBroadcast /\ [][NextBroadcast]_vars

\* the accepted sockets whose send does not throw
Reachable == DOMAIN sockets \ broken

(* C18 *)
\* C18: when a handler changes the room, every reachable socket, the sender's
\* included, is sent a delta event; a delta event is sent once to each
\* reachable socket; user_joined is not sent to the user it names.
C18_DeltaToEveryone ==
    /\ [][(room # NoRoom /\ room' # room)
             => \A w \in Reachable :
                    \E i \in DOMAIN sent' :
                        sent'[i].to = w /\ sent'[i].msg.type \in DeltaTypes]_vars
    /\ [](\A i \in DOMAIN sent :
             /\ sent[i].msg.type \in DeltaTypes
                   => \A w \in Reachable :
                          Cardinality({j \in DOMAIN sent :
                                          sent[j] = [to |-> w, msg |-> sent[i].msg]}) = 1
             /\ sent[i].msg.type = "user_joined"
                   => sockets[sent[i].to].id # sent[i].msg.user.id)

\* a card was just published with two sockets accepted, and both were sent
\* the event, its author among them
C18_Witness ==
    /\ last = "publish_card"
    /\ Cardinality(DOMAIN sockets) = 2 /\ broken = {}
    /\ Len(sent) = 2
    /\ \E i \in DOMAIN sent :
          /\ sent[i].msg.type = "card_published"
          /\ sockets[sent[i].to].id = sent[i].msg.card.authorId

(* C19 *)
\* C19: while a socket is broken nothing is delivered to it, every delta
\* event is still delivered to every other accepted socket with its mutation
\* stored, and messages go on being handled: a handler that then changes
\* the room stores the change and sends its event to the other sockets.
C19_SendFailureSwallowed ==
    /\ [](broken # {} =>
             \A i \in DOMAIN sent :
                 /\ sent[i].to \notin broken
                 /\ sent[i].msg.type \in DeltaTypes
                       => /\ storage = room
                          /\ \A w \in Reachable :
                                \E j \in DOMAIN sent :
                                    sent[j] = [to |-> w, msg |-> sent[i].msg])
    /\ [][(broken # {} /\ room # NoRoom /\ room' # room)
             => /\ storage' = room'
                /\ \A w \in Reachable :
                       \E i \in DOMAIN sent' :
                           sent'[i].to = w /\ sent'[i].msg.type \in DeltaTypes]_vars

\* with the first of two sockets broken a card was published: the other
\* socket was sent the event and the card is stored
C19_Witness ==
    /\ broken = {1} /\ DOMAIN sockets = {1, 2}
    /\ last = "publish_card"
    /\ Len(sent) = 1 /\ sent[1].to = 2 /\ sent[1].msg.type = "card_published"
    /\ Len(storage.cards) = 1

\* two participants and the cards of each
InitAuthor == InitWith(Quota(MaxUsers, FewColumns, MaxCards, FewGroups, 0, 0, 0, TRUE))

NextAuthor ==
    \/ CreateRoom
    \/ Connect
    \/ AddColumn
    \/ DeleteColumn
    \/ PublishCard
    \/ DeleteCard
    \/ GroupCards

SpecAuthor == InitAuthor /\ [][NextAuthor]_vars

(* C20 *)
NotYourCardMsg == ErrorMsg("UNAUTHORIZED", "You can only delete your own cards")

ContentTooLongMsg ==
    ErrorMsg("CONTENT_TOO_LONG", "Card content cannot exceed 1000 characters")

\* C21: publish_card naming an existing column with trimmed content longer
\* than 1000 characters changes neither the room nor storage and sends one
\* message, the CONTENT_TOO_LONG error, to the requesting socket; publish_card
\* with an unknown column or with content that is empty after the trim
\* changes nothing and sends nothing; a card that enters the room carries a
\* column that existed before the publish, no votes and no action items; and
\* every stored card's content is trimmed and 1..1000 characters long.
C21_PublishValidated ==
    /\ [][\A ws \in DOMAIN sockets : \A data \in PublishCardMsgs :
             (room # NoRoom /\ HandleMessage(ws, data))
                 => /\ (/\ IndexOfId(room.columns, data.columnId) # 0
                        /\ StrLen(Trim(data.content)) > MaxContentLength)
                           => /\ room' = room
                              /\ storage' = storage
                              /\ sent' = <<[to |-> ws, msg |-> ContentTooLongMsg]>>
                    /\ (\/ IndexOfId(room.columns, data.columnId) = 0
                        \/ StrLen(Trim(data.content)) = 0)
                           => /\ room' = room
                              /\ storage' = storage
                              /\ sent' = <<>>]_vars
    /\ [][(room # NoRoom /\ room' # NoRoom)
             => \A c \in Range(room'.cards) :
                    CardIndex(room, c.id) = 0
                        => /\ IndexOfId(room.columns, c.columnId) # 0
                           /\ c.votes = 0
                           /\ c.actionItems = <<>>]_vars
    /\ [](room # NoRoom
             => \A c \in Range(room.cards) :
                    /\ Trim(c.content) = c.content
                    /\ StrLen(c.content) \in 1..MaxContentLength)

\* the second participant's over-long card was just refused, in a room that
\* holds a card
C21_Witness ==
    /\ last = "publish_card"
    /\ sent = <<[to |-> 2, msg |-> ContentTooLongMsg]>>
    /\ room # NoRoom
    /\ Len(room.cards) > 0

(* C22 *)
\* C22: an edit_card sent by the socket bound to the card's author, with
\* content that is not empty after the trim, leaves the card with that
\* trimmed content.
C22_AuthorEditChangesContent ==
    [][\A ws \in DOMAIN sockets : \A data \in EditCardMsgs :
          (/\ room # NoRoom
           /\ CardIndex(room, data.cardId) # 0
           /\ room.cards[CardIndex(room, data.cardId)].authorId = sockets[ws].id
           /\ StrLen(Trim(data.content)) \in 1..MaxContentLength
           /\ HandleMessage(ws, data))
              => room'.cards[CardIndex(room, data.cardId)].content
                     = Trim(data.content)]_vars

(* C23 *)
\* C23: the columns of the room carry pairwise distinct ids and their order
\* values are exactly 0..n-1, n being the number of columns.
C23_ColumnsDense ==
    room # NoRoom
        => /\ \A i, j \in DOMAIN room.columns :
                  room.columns[i].id = room.columns[j].id => i = j
           /\ {c.order : c \in Range(room.columns)} = 0..(Len(room.columns) - 1)

(* C24 *)
\* the id list names every existing column exactly once
IsPermutationOfColumns(columnIds) ==
    /\ Len(columnIds) = Len(room.columns)
    /\ Range(columnIds) = {c.id : c \in Range(room.columns)}
    /\ \A i, j \in DOMAIN columnIds : columnIds[i] = columnIds[j] => i = j

\* C24: owner:reorder_columns whose id list is not a permutation of the
\* existing column ids leaves the columns as they were and sends no
\* columns_reordered message.
C24_NonPermutationIsNoOp ==
    [][\A ws \in DOMAIN sockets : \A data \in ReorderColumnsMsgs :
          (/\ room # NoRoom
           /\ ~IsPermutationOfColumns(data.columnIds)
           /\ HandleMessage(ws, data))
              => /\ room'.columns = room.columns
                 /\ \A k \in DOMAIN sent' : sent'[k].msg.type # "columns_reordered"]_vars

(* C25 *)
\* C25: every stored card's columnId names a column of the room.
C25_CardsInExistingColumns ==
    room # NoRoom
        => \A c \in Range(room.cards) : IndexOfId(room.columns, c.columnId) # 0

(* C26 *)
\* the worker's room creation reaching an object that already holds a room
InitInit ==
    InitWith([Quota(MaxUsers, MaxColumns, FewCards, 0, 0, 0, 0, TRUE)
                 EXCEPT !.init = MaxInits])

NextInit ==
    \/ CreateRoom
    \/ CreateRoomAgain
    \/ Connect
    \/ AddColumn
    \/ SetMode
    \/ PublishCard

SpecInit == InitInit /\ [][NextInit]_vars

\* C26: a POST /init that reaches an object which already holds a room
\* leaves the room and what storage holds of it unchanged.
C26_InitOnce ==
    [][CreateRoomAgain => (room' = room /\ storage' = storage)]_vars

(* C27 *)
\* C27: group_cards with fewer than two distinct card ids, or with an id
\* that no card carries, changes neither the groups nor the cards and sends
\* nothing.
C27_DegenerateGroupingIsNoOp ==
    [][\A ws \in DOMAIN sockets : \A data \in GroupCardsMsgs :
          (/\ room # NoRoom
           /\ \/ Cardinality(Range(data.cardIds)) < 2
              \/ \E i \in DOMAIN data.cardIds : CardIndex(room, data.cardIds[i]) = 0
           /\ HandleMessage(ws, data))
              => /\ room'.groups = room.groups
                 /\ room'.cards = room.cards
                 /\ sent' = <<>>]_vars

(* C28 *)
\* C28: the action items of a card grow only in a step taken while that card
\* is the room's focused card.
C28_ActionOnlyOnFocusedCard ==
    [][(room # NoRoom /\ room' # NoRoom)
          => \A c \in Range(room.cards) :
                 (/\ CardIndex(room', c.id) # 0
                  /\ Len(room'.cards[CardIndex(room', c.id)].actionItems)
                         > Len(c.actionItems))
                     => room.focusedCardId = c.id]_vars

(* C29 *)
\* C29: the room in memory equals the room that the last successful put
\* stored, also after an operation whose put threw.
C29_MemoryEqualsPersisted ==
    (room # NoRoom /\ storage # NoRoom) => room = storage

(* C30 *)
\* two participants whose messages interleave, and what each socket was sent
InitOrder ==
    InitWith([Quota(MaxUsers, FewColumns, MaxCards, 0, 0, 0, 0, FALSE)
                 EXCEPT !.history = TRUE])

NextOrder ==
    \/ CreateRoom
    \/ Connect
    \/ AddColumn
    \/ PublishCard
    \/ DeleteCard

SpecOrder == InitOrder /\ [][NextOrder]_vars

\* `log` is the end of `whole`
IsSuffix(log, whole) ==
    /\ Len(log) <= Len(whole)
    /\ \A k \in DOMAIN log : log[k] = whole[Len(whole) - Len(log) + k]

\* C30: what every socket has been sent of the mutations is, in this order,
\* the end of the sequence of mutations as they were made to the room (all of
\* them since the socket was accepted); so any two sockets were sent the
\* mutations they both saw in the same order.
C30_DeltasInMutationOrder ==
    /\ \A ws \in DOMAIN delivered : IsSuffix(delivered[ws], applied)
    /\ \A ws, other \in DOMAIN delivered :
           \/ IsSuffix(delivered[ws], delivered[other])
           \/ IsSuffix(delivered[other], delivered[ws])

\* both participants have published and deleted; the second joined after
\* the first mutation and has been sent all the later ones
C30_Witness ==
    /\ DOMAIN delivered = {1, 2}
    /\ Len(applied) >= 4
    /\ Len(delivered[2]) = Len(applied) - 1
    /\ \E i, j \in DOMAIN applied :
           /\ i < j
           /\ applied[i].type = "card_published" /\ applied[i].card.authorId = 2
           /\ applied[j].type = "card_published" /\ applied[j].card.authorId = 1
    /\ \E i \in DOMAIN applied : applied[i].type = "card_deleted"

(* C31 *)
\* one hook, its sockets and the messages passed to send
InitHook ==
    InitWith([Quota(0, 0, 0, 0, 0, 0, 0, FALSE)
                 EXCEPT !.send = MaxSends, !.close = MaxCloses, !.mount = MaxMounts])

NextHook ==
    \/ Effect
    \/ OnOpen
    \/ OnClose
    \/ ReconnectTimer
    \/ PingInterval
    \/ HookSend
    \/ HookDisconnect

SpecHook == InitHook /\ [][NextHook]_vars

\* the numbers of the messages of send in `msgs`, pings left out
Numbers(msgs) ==
    LET own == SelectSeq(msgs, LAMBDA m : m.type # "ping")
    IN [i \in DOMAIN own |-> own[i].n]

WireNumbers == Numbers([i \in DOMAIN hook.wire |-> hook.wire[i].msg])

\* C31: every message passed to send is either still queued or was handed
\* to ws.send exactly once; the messages handed to ws.send, and after them
\* the queued ones, are in the order of the calls of send; and an onopen of
\* the hook hands over the whole queue, before any later message.
C31_QueueSentOnceInOrder ==
    /\ [](WireNumbers \o Numbers(hook.queue)
              = [i \in DOMAIN hook.submitted |-> i])
    /\ [][(\E ws \in hook.handlers :
              /\ hook.readyState[ws] = "CONNECTING"
              /\ hook'.readyState[ws] = "OPEN")
             => hook'.queue = <<>>]_vars

\* two messages were queued while no socket was open and one was sent on an
\* open socket; after a close and a reconnect all three are on the wire
C31_Witness ==
    /\ Len(hook.submitted) = 3
    /\ Cardinality({i \in DOMAIN hook.submitted : hook.submitted[i].queued}) >= 2
    /\ \E i \in DOMAIN hook.submitted : ~hook.submitted[i].queued
    /\ WireNumbers = <<1, 2, 3>>
    /\ \E ws \in DOMAIN hook.readyState : hook.readyState[ws] = "CLOSED"
    /\ Cardinality({hook.wire[i].ws : i \in DOMAIN hook.wire}) >= 2

(* C32 *)
\* the hook with its timer: a timeout that was set and not cleared fires
InitHookLive ==
    InitWith([Quota(0, 0, 0, 0, 0, 0, 0, FALSE)
                 EXCEPT !.send = FewSends, !.close = MaxCloses, !.mount = MaxMounts])

SpecHookLive == InitHookLive /\ [][NextHook]_vars /\ WF_vars(ReconnectTimer)

LiveSockets == {ws \in DOMAIN hook.readyState : Live(hook, ws)}

\* C32: at most one socket of the hook is OPEN or CONNECTING; when the hook
\* is mounted, has not been disconnected and holds no such socket, a new
\* socket is eventually made (or the hook is disconnected first); and while
\* the hook is disconnected no socket is made.
C32_ReconnectsUntilDisconnect ==
    /\ [](Cardinality(LiveSockets) <= 1)
    /\ [][(hook.isCleaningUp /\ hook'.isCleaningUp)
             => Len(hook'.readyState) = Len(hook.readyState)]_vars
    /\ \A n \in 0..(MaxCloses + MaxMounts) :
           (/\ hook.mounted /\ ~hook.isCleaningUp
            /\ LiveSockets = {}
            /\ Len(hook.readyState) = n)
               ~> (hook.isCleaningUp \/ Len(hook.readyState) > n)

\* the socket was closed twice while the hook was mounted, the third socket
\* is open and the attempts were counted
C32_Witness ==
    /\ hook.mounted
    /\ Len(hook.readyState) = 3
    /\ hook.readyState = <<"CLOSED", "CLOSED", "OPEN">>
    /\ hook.mounts = 1

(* C33 *)
\* ToggleVote as the specification gives it and as the client's message
\* types declare its event (the room object of this repository has no such
\* handler): without ceilings, the target is added to the participant's vote
\* set or removed from it, and vote_toggled with the number of participants
\* that hold the target goes to every socket.  The target id of a group is
\* written as the negated group id, that of a card as the card id.
ToggleVote ==
    /\ InputGate
    /\ room # NoRoom
    /\ quota.toggle > 0
    /\ \E ws \in DOMAIN sockets, targetType \in {"card", "group"},
          id \in 1..(quota.card + quota.group) :
        LET user == sockets[ws].id
            targetId == IF targetType = "card" THEN id ELSE 0 - id
            mine == IF user \in DOMAIN voteSets THEN voteSets[user] ELSE {}
            action == IF targetId \in mine THEN "remove" ELSE "add"
            sets == [p \in DOMAIN voteSets \cup {user} |->
                        IF p # user THEN voteSets[p]
                        ELSE IF action = "add" THEN mine \cup {targetId}
                        ELSE mine \ {targetId}]
            votes == Cardinality({p \in DOMAIN sets : targetId \in sets[p]})
        IN /\ IF targetType = "card"
              THEN /\ CardIndex(room, id) # 0
                   /\ room.cards[CardIndex(room, id)].groupId = 0
              ELSE GroupIndex(room, id) # 0
           /\ voteSets' = sets
           /\ sent' = Broadcast(sockets,
                          [type |-> "vote_toggled", targetId |-> targetId,
                           targetType |-> targetType, votes |-> votes,
                           userId |-> user, action |-> action], 0)
    /\ response' = NoResponse
    /\ last' = Logged("toggle_vote")
    /\ delivered' = Delivered(sent', sockets)
    /\ replica' = Replicas(sent', sockets)
    /\ UNCHANGED <<room, storage, sockets, seq, putFailures, storageFault, quota,
                   broken, applied, hook, pending>>

\* two clients, their cards and groups, and votes on them
InitToggle ==
    InitWith([Quota(MaxUsers, FewColumns, PairCards, FewGroups, 0, 0, 0, FALSE)
                 EXCEPT !.replica = TRUE, !.toggle = 1])

NextToggle ==
    \/ CreateRoom
    \/ Connect
    \/ AddColumn
    \/ PublishCard
    \/ GroupCards
    \/ ToggleVote

SpecToggle == InitToggle /\ [][NextToggle]_vars

\* getGroupVotes of the focus view: the sum of the votes of the member cards
RECURSIVE GetGroupVotes(_, _)
GetGroupVotes(cardIds, cards) ==
    IF cardIds = <<>> THEN 0
    ELSE (IF IndexOfId(cards, Head(cardIds)) = 0 THEN 0
          ELSE cards[IndexOfId(cards, Head(cardIds))].votes)
         + GetGroupVotes(Tail(cardIds), cards)

\* C33: after a vote_toggled event for a group, the vote count every client
\* shows for that group is the count of the event, the number of
\* participants that hold the group in their vote sets.
C33_GroupCountShown ==
    [][\A k \in DOMAIN sent' :
          (/\ sent'[k].msg.type = "vote_toggled"
           /\ sent'[k].msg.targetType = "group")
              => \A g \in Range(replica'[sent'[k].to].groups) :
                     g.id = 0 - sent'[k].msg.targetId
                         => GetGroupVotes(g.cardIds, replica'[sent'[k].to].cards)
                                = sent'[k].msg.votes]_vars

(* C34 *)
\* C34: a card that belongs to a group carries no vote: the room object
\* counts the votes of its participants on the cards (card.votes), and a
\* vote that stays on a card when the card is grouped is a vote of a
\* participant for a card that belongs to a group.
C34_NoVoteOnGroupedCard ==
    room # NoRoom
        => \A c \in Range(room.cards) : c.groupId # 0 => c.votes = 0

(* C37 *)
\* C37: the own votes every client holds are the vote set of the
\* participant its socket is bound to.
C37_OwnVotesAgree ==
    \A ws \in DOMAIN replica :
        replica[ws].myVotes = (IF sockets[ws].id \in DOMAIN voteSets
                               THEN voteSets[sockets[ws].id] ELSE {})

(* C35 *)
\* the clients' copies of the room
InitReplica ==
    InitWith([Quota(MaxUsers, MaxColumns, PairCards, FewGroups, 0, MaxActions, 0, FALSE)
                 EXCEPT !.replica = TRUE])

SpecReplicaCards == InitReplica /\ [][NextCards]_vars

\* the cards with their groups, and the groups with their members
CardsAndGroups(cards, groups) ==
    [cards |-> {[id |-> c.id, groupId |-> c.groupId] : c \in Range(cards)},
     groups |-> {[id |-> g.id, cardIds |-> g.cardIds] : g \in Range(groups)}]

\* C35: every client holds the cards of the room, each with the groupId it
\* has in the room, and the groups of the room with their member lists.
C35_ClientCardsAgree ==
    room # NoRoom
        => \A ws \in DOMAIN replica :
               CardsAndGroups(replica[ws].cards, replica[ws].groups)
                   = CardsAndGroups(room.cards, room.groups)

(* C36 *)
NextColumns ==
    \/ CreateRoom
    \/ Connect
    \/ AddColumn
    \/ UpdateColumn
    \/ DeleteColumn
    \/ ReorderColumns

SpecReplicaColumns == InitReplica /\ [][NextColumns]_vars

\* C36: every client holds the column ids of the room, each with the order
\* value it has in the room.
C36_ClientColumnsAgree ==
    room # NoRoom
        => \A ws \in DOMAIN replica :
               {[id |-> c.id, order |-> c.order] : c \in Range(replica[ws].columns)}
                   = {[id |-> c.id, order |-> c.order] : c \in Range(room.columns)}

(* C38 *)
\* C38: the focused card of the room is null or the id of a card of the
\* room.
C38_FocusNamesExistingCard ==
    room # NoRoom
        => (room.focusedCardId = 0 \/ CardIndex(room, room.focusedCardId) # 0)

(* C39 *)
\* C39: the mode of the room is one of the six modes.
C39_ModeIsDefined ==
    room # NoRoom => room.mode \in Modes

(* C40 *)
\* handleAddAction up to its await: the action item is pushed on the card
\* and storage.put is called; the broadcast waits for the put
AddActionBegin ==
    /\ InputGate
    /\ room # NoRoom
    /\ seq.action < quota.action
    /\ \E ws \in DOMAIN sockets, data \in AddActionMsgs :
        LET cardIndex == CardIndex(room, data.cardId)
            action == [id |-> seq.action + 1, content |-> Trim(data.content)]
        IN /\ PassesOwnerGate(data)
           /\ data.cardId # 0 /\ ~Blank(data.content) /\ cardIndex # 0
           /\ room' = [room EXCEPT !.cards[cardIndex].actionItems = Append(@, action)]
           /\ pending' = <<[type |-> "action_added", cardId |-> data.cardId,
                            action |-> action]>>
    /\ seq' = [seq EXCEPT !.action = @ + 1]
    /\ sent' = <<>>
    /\ response' = NoResponse
    /\ last' = Logged("owner:add_action")
    /\ UNCHANGED <<storage, sockets, putFailures, storageFault, quota, broken,
                   delivered, applied, replica, hook, voteSets>>

\* handleAddAction after its await: the put has resolved or thrown, and the
\* broadcast goes to the sockets the object holds now
AddActionEnd ==
    /\ pending # <<>>
    /\ PutAndBroadcast(room, Broadcast(sockets, pending[1], 0))
    /\ pending' = <<>>
    /\ last' = Logged("owner:add_action")
    /\ delivered' = Delivered(sent', sockets)
    /\ replica' = Replicas(sent', sockets)
    /\ UNCHANGED <<sockets, seq, quota, broken, applied, hook, voteSets>>

NextGate ==
    \/ CreateRoom
    \/ Connect
    \/ AddColumn
    \/ PublishCard
    \/ AddActionBegin
    \/ AddActionEnd

SpecGate == InitReplica /\ [][NextGate]_vars

\* the ids of the action items the client of ws holds for the card
ClientActionIds(c, cardId) ==
    LET items == c.cards[IndexOfId(c.cards, cardId)].actionItems
    IN [i \in DOMAIN items |-> items[i].id]

\* C40: an action_added event never reaches a socket whose client already
\* holds that action item (from its snapshot or from an earlier event); so
\* no client holds an action item twice, and once the broadcast is out every
\* client holds exactly the action items of the room.
C40_NoDeltaForSnapshotMutation ==
    /\ [][\A k \in DOMAIN sent' :
             (sent'[k].msg.type = "action_added" /\ sent'[k].to \in DOMAIN replica)
                 => sent'[k].msg.action.id
                        \notin Range(ClientActionIds(replica[sent'[k].to],
                                                     sent'[k].msg.cardId))]_vars
    /\ [](\A ws \in DOMAIN replica : \A c \in Range(replica[ws].cards) :
             /\ \A i, j \in DOMAIN c.actionItems :
                    c.actionItems[i].id = c.actionItems[j].id => i = j
             /\ (room # NoRoom /\ pending = <<>>)
                    => c.actionItems
                           = room.cards[CardIndex(room, c.id)].actionItems)

\* the second client has just connected after the action item was added and
\* broadcast: it holds the item from its snapshot, the first client holds it
\* from the event
C40_Witness ==
    /\ pending = <<>>
    /\ seq.action = 1
    /\ DOMAIN replica = {1, 2}
    /\ \E k \in DOMAIN sent : sent[k].msg.type = "state" /\ sent[k].to = 2
    /\ \A ws \in {1, 2} : \E c \in Range(replica[ws].cards) : Len(c.actionItems) = 1
=============================================================================
